---- MODULE Spec2Model ----
(***************************************************************************)
(* Budget application (Django): session login/logout, the add_income and   *)
(* add_expense write handlers with their form validation, and the          *)
(* dashboard report built by DashboardView.get_context_data.               *)
(*                                                                         *)
(* The store is the set of tables the views query.  Each table is a        *)
(* sequence of rows in insertion order; a row's position is its primary    *)
(* key.  Every view except the dashboard is one atomic step (one request). *)
(* The dashboard issues one query per loop iteration and reads the wall    *)
(* clock twice, so it is modelled query by query: other requests and the   *)
(* clock may move between two of its steps.                                *)
(***************************************************************************)
EXTENDS Integers, Sequences, FiniteSets, TLC

VARIABLES
    session,        \* session id -> the user the session is logged in as
    resp,           \* session id -> the last response sent to that session
    incomes,        \* Income table
    expenses,       \* Expense table
    goals,          \* Goal table
    contributions,  \* Contribution table
    now,            \* the wall clock: [year, month]
    dash            \* dashboard request -> locals of get_context_data

vars  == <<session, resp, incomes, expenses, goals, contributions, now, dash>>

----------------------------------------------------------------------------
(* Bounds of the model *)

MaxRows     == 2    \* Income rows plus Expense rows
MaxGoalRows == 4    \* Goal rows plus Contribution rows
MaxTicks    == 2    \* months the clock advances

----------------------------------------------------------------------------
(* Users, sessions, requests and the inputs the handlers receive *)

Users     == {"u1", "u2"}
Anonymous == "AnonymousUser"
Accounts  == [u \in Users |-> IF u = "u1" THEN "p1" ELSE "p2"]
Usernames == Users \cup {"wronguser"}
Passwords == {"p1", "p2"}
Sessions  == {"s1", "s2"}
Requests  == {"r1", "r2"}
Methods   == {"GET", "POST"}

Categories == <<"c1", "c2">>

Date(y, m) == [year |-> y, month |-> m]
StartDate  == Date(2024, 12)

\* The dates a transaction form may carry: November and December of the
\* start year, and December of the year before.
FormDates ==
    { Date(StartDate.year, 11), Date(StartDate.year, 12),
      Date(StartDate.year - 1, 12) }

AmountInputs   == {-1, 0, 1, 2}
TargetAmounts  == {0, 500}
ContribAmounts == {100, 600}

----------------------------------------------------------------------------
(* Responses *)

NoResponse     == [status |-> 0, url |-> "", template |-> "", error |-> ""]
Redirect(to)   == [status |-> 302, url |-> to, template |-> "", error |-> ""]
Render(t, err) == [status |-> 200, url |-> "", template |-> t, error |-> err]

LoginError  == "Username or password is incorrect"
AmountError == "Amount must be a positive number."
FieldError  == "This field is required."

----------------------------------------------------------------------------
(* Authentication *)

\* Faulty variant of authenticate: the password is not compared
authenticate_without_password(username, password) ==
    IF username \in Users THEN username ELSE Anonymous

\* django.contrib.auth.authenticate against the user table
authenticate(username, password) ==
    IF username \in Users /\ Accounts[username] = password
    THEN username ELSE Anonymous

\* user_login, POST and GET
user_login(s, method, username, password) ==
    /\ IF method = "POST"
       THEN LET user == authenticate(username, password) IN
            IF user # Anonymous
            THEN /\ session' = [session EXCEPT ![s] = user]
                 /\ resp' = [resp EXCEPT ![s] = Redirect("dashboard")]
            ELSE /\ session' = session
                 /\ resp' = [resp EXCEPT ![s] = Render("login.html", LoginError)]
       ELSE /\ session' = session
            /\ resp' = [resp EXCEPT ![s] = Render("login.html", "")]
    /\ UNCHANGED <<incomes, expenses, goals, contributions, now, dash>>

\* user_logout, any method
user_logout(s) ==
    /\ session' = [session EXCEPT ![s] = Anonymous]
    /\ resp' = [resp EXCEPT ![s] = Redirect("login")]
    /\ UNCHANGED <<incomes, expenses, goals, contributions, now, dash>>

----------------------------------------------------------------------------
(* Income and Expense forms *)

ValidationError == [ok |-> FALSE, value |-> 0]
Cleaned(v)      == [ok |-> TRUE, value |-> v]

\* Faulty variant of clean_amount: the comparison is < instead of <=
clean_amount_accepting_zero(amount) ==
    IF amount < 0 THEN ValidationError ELSE Cleaned(amount)

\* IncomeForm.clean_amount / ExpenseForm.clean_amount
clean_amount(amount) ==
    IF amount <= 0 THEN ValidationError ELSE Cleaned(amount)

\* A submitted form: the amount, the category, the date, and whether the
\* fields other than the amount pass their own field validation.
Forms ==
    [amount : AmountInputs, category : {"c1", "c2"}, date : FormDates,
     fieldsOk : BOOLEAN]

\* ModelForm.is_valid: every field cleans, and clean_amount accepts
is_valid(form) == form.fieldsOk /\ clean_amount(form.amount).ok

FormErrors(form) ==
    IF ~form.fieldsOk THEN FieldError
    ELSE IF ~clean_amount(form.amount).ok THEN AmountError ELSE ""

\* form.save(commit=False); instance.user = request.user; form.save()
SavedRow(form, user) ==
    [user |-> user, category |-> form.category,
     amount |-> clean_amount(form.amount).value, date |-> form.date]

RowCount == Len(incomes) + Len(expenses)

\* add_income behind @login_required
add_income(s, method, form) ==
    /\ IF session[s] = Anonymous
       THEN /\ resp' = [resp EXCEPT ![s] = Redirect("login")]
            /\ incomes' = incomes
       ELSE IF method = "POST" /\ is_valid(form)
       THEN /\ RowCount < MaxRows
            /\ incomes' = Append(incomes, SavedRow(form, session[s]))
            /\ resp' = [resp EXCEPT ![s] = Redirect("transactions")]
       ELSE /\ incomes' = incomes
            /\ resp' = [resp EXCEPT ![s] =
                   Render("add_income.html",
                          IF method = "POST" THEN FormErrors(form) ELSE "")]
    /\ UNCHANGED <<session, expenses, goals, contributions, now, dash>>

\* add_expense behind @login_required
add_expense(s, method, form) ==
    /\ IF session[s] = Anonymous
       THEN /\ resp' = [resp EXCEPT ![s] = Redirect("login")]
            /\ expenses' = expenses
       ELSE IF method = "POST" /\ is_valid(form)
       THEN /\ RowCount < MaxRows
            /\ expenses' = Append(expenses, SavedRow(form, session[s]))
            /\ resp' = [resp EXCEPT ![s] = Redirect("transactions")]
       ELSE /\ expenses' = expenses
            /\ resp' = [resp EXCEPT ![s] =
                   Render("add_expense.html",
                          IF method = "POST" THEN FormErrors(form) ELSE "")]
    /\ UNCHANGED <<session, incomes, goals, contributions, now, dash>>

----------------------------------------------------------------------------
(* The environment: rows written through the ORM, and the wall clock *)

GoalRowCount == Len(goals) + Len(contributions)

\* Goal.objects.create(owner=..., target_amount=...)
GoalCreate(owner, target) ==
    /\ GoalRowCount < MaxGoalRows
    /\ goals' = Append(goals, [owner |-> owner, target_amount |-> target])
    /\ UNCHANGED <<session, resp, incomes, expenses, contributions, now, dash>>

\* Contribution.objects.create(goal=..., contributor=..., amount=...)
ContributionCreate(goal, contributor, amount) ==
    /\ GoalRowCount < MaxGoalRows
    /\ goal \in DOMAIN goals
    /\ contributions' = Append(contributions,
           [goal |-> goal, contributor |-> contributor, amount |-> amount])
    /\ UNCHANGED <<session, resp, incomes, expenses, goals, now, dash>>

NextMonth(d) ==
    IF d.month = 12 THEN Date(d.year + 1, 1) ELSE Date(d.year, d.month + 1)

\* The calendar month before the month of d
PrevCalendarMonth(d) ==
    IF d.month = 1 THEN Date(d.year - 1, 12) ELSE Date(d.year, d.month - 1)

MonthsSinceStart ==
    (now.year - StartDate.year) * 12 + (now.month - StartDate.month)

\* The wall clock passes into the next calendar month
Tick ==
    /\ MonthsSinceStart < MaxTicks
    /\ now' = NextMonth(now)
    /\ UNCHANGED <<session, resp, incomes, expenses, goals, contributions, dash>>

----------------------------------------------------------------------------
(* Queries of the dashboard *)

\* filter(...): the positions of the rows kept, in table order; keep[i]
\* tells whether row i of the table satisfies the conditions
RECURSIVE Filter(_, _)
Filter(keep, i) ==
    IF i > Len(keep) THEN <<>>
    ELSE (IF keep[i] THEN <<i>> ELSE <<>>) \o Filter(keep, i + 1)

\* aggregate(Sum('amount')): NULL over no rows, else the sum of the amounts
NullSum == [null |-> TRUE, value |-> 0]
RECURSIVE SumAmounts(_, _)
SumAmounts(table, pks) ==
    IF pks = <<>> THEN 0
    ELSE table[Head(pks)].amount + SumAmounts(table, Tail(pks))

Aggregate(table, pks) ==
    IF pks = <<>> THEN NullSum
    ELSE [null |-> FALSE, value |-> SumAmounts(table, pks)]

\* <aggregate> or 0
OrZero(agg) == IF agg.null \/ agg.value = 0 THEN 0 ELSE agg.value

\* Goal.objects.filter(owner=user)
GoalsOwnedBy(user) ==
    Filter([i \in DOMAIN goals |->
              goals[i].owner = user], 1)

\* Contribution.objects.filter(goal=goal)
ContributionsForGoal(goal) ==
    Filter([i \in DOMAIN contributions |->
              contributions[i].goal = goal], 1)

\* Contribution.objects.filter(contributor=user)
ContributionsBy(user) ==
    Filter([i \in DOMAIN contributions |->
              contributions[i].contributor = user], 1)

\* Faulty variant of ContributionsOfOthers: the exclude() is missing
ContributionsOfOthers_without_exclude(user) ==
    Filter([i \in DOMAIN contributions |->
              goals[contributions[i].goal].owner = user], 1)

\* Contribution.objects.exclude(contributor=user).filter(goal__in=user_goals)
\* (user_goals is a queryset: the database evaluates it as a subquery)
ContributionsOfOthers(user) ==
    Filter([i \in DOMAIN contributions |->
              /\ contributions[i].contributor # user
              /\ goals[contributions[i].goal].owner = user], 1)

\* Faulty variant of ExpensesFor: the user filter is missing
ExpensesFor_any_user(category, user, month) ==
    Filter([i \in DOMAIN expenses |->
              expenses[i].category = category /\ expenses[i].date.month = month], 1)

\* Expense.objects.filter(category=..., user=..., date__month=...)
ExpensesFor(category, user, month) ==
    Filter([i \in DOMAIN expenses |->
              expenses[i].category = category /\ expenses[i].user = user
                      /\ expenses[i].date.month = month], 1)

\* Faulty variant of IncomesFor: the month is computed from the clock at the time
\* of the query instead of taken from last_month
IncomesFor_month_of_query(category, user, month) ==
    Filter([i \in DOMAIN incomes |->
              incomes[i].category = category /\ incomes[i].user = user
                      /\ incomes[i].date.month =
                           (IF now.month > 1 THEN now.month - 1 ELSE 12)], 1)

\* Income.objects.filter(category=..., user=..., date__month=...)
IncomesFor(category, user, month) ==
    Filter([i \in DOMAIN incomes |->
              incomes[i].category = category /\ incomes[i].user = user
                      /\ incomes[i].date.month = month], 1)

----------------------------------------------------------------------------
(* Goal progress: a percentage, kept as a fraction in lowest terms *)

RECURSIVE Gcd(_, _)
Gcd(a, b) == IF b = 0 THEN a ELSE Gcd(b, a % b)
Abs(x) == IF x < 0 THEN -x ELSE x

Fraction(n, d) ==
    LET g == Gcd(Abs(n), d) IN [num |-> n \div g, den |-> d \div g]

\* Faulty variant of Progress: the percentage is capped at 100
Progress_capped(total_contributions, target_amount) ==
    IF target_amount > 0
    THEN IF total_contributions > target_amount
         THEN Fraction(100, 1)
         ELSE Fraction(total_contributions * 100, target_amount)
    ELSE Fraction(0, 1)

\* (total_contributions / goal.target_amount) * 100 if target_amount > 0 else 0
Progress(total_contributions, target_amount) ==
    IF target_amount > 0
    THEN Fraction(total_contributions * 100, target_amount)
    ELSE Fraction(0, 1)

\* Faulty variant of Balance: the operands are swapped
Balance_swapped(total_incomes, total_expenses) == total_expenses - total_incomes

\* total_incomes - total_expenses
Balance(total_incomes, total_expenses) == total_incomes - total_expenses

----------------------------------------------------------------------------
(* DashboardView.get_context_data, one step per query or clock read *)

DashIdle ==
    [pc |-> "idle", user |-> Anonymous,
     user_goals |-> <<>>, goals_with_progress |-> <<>>,
     cond_month |-> 0, value_month |-> 0, last_month |-> 0,
     categories |-> <<>>, total_expenses_in_category |-> 0,
     category_summary |-> <<>>,
     total_expenses |-> 0, total_incomes |-> 0, total_balance |-> 0,
     user_contribution |-> <<>>, other_contribution |-> <<>>]

\* Faulty variant of DashFrame: a step of the view deletes the Expense rows
DashFrame_deleting ==
    /\ expenses' = <<>>
    /\ UNCHANGED <<session, resp, incomes, goals, contributions, now>>

\* The view only reads: no step of it writes the session, a response of
\* another request, a table or the clock
DashFrame == UNCHANGED <<session, resp, incomes, expenses, goals, contributions, now>>

\* A GET of the dashboard arrives on session s: request.user is resolved and
\* the goals of the user are fetched (the for loop evaluates user_goals).
\* The view is not behind login_required; for an anonymous session the
\* filter on owner raises and no report is built.
DashStart(r, s) ==
    /\ dash[r].pc \in {"idle", "done"}
    /\ session[s] # Anonymous
    /\ dash' = [dash EXCEPT ![r] =
           [DashIdle EXCEPT !.pc = "goals", !.user = session[s],
                            !.user_goals = GoalsOwnedBy(session[s])]]
    /\ DashFrame

\* One iteration of the goal loop: the sum query and the progress
DashGoal(r) ==
    LET d    == dash[r]
        i    == Len(d.goals_with_progress) + 1
        goal == d.user_goals[i]
        total_contributions ==
            OrZero(Aggregate(contributions, ContributionsForGoal(goal)))
        progress == Progress(total_contributions, goals[goal].target_amount)
    IN  /\ d.pc = "goals"
        /\ i <= Len(d.user_goals)
        /\ dash' = [dash EXCEPT ![r].goals_with_progress =
               Append(@, [goal |-> goal,
                          total_contributions |-> total_contributions,
                          progress |-> progress])]
        /\ DashFrame

\* last_month, first clock read: the condition datetime.now().month > 1
DashClockCond(r) ==
    LET d == dash[r] IN
    /\ d.pc = "goals"
    /\ Len(d.goals_with_progress) = Len(d.user_goals)
    /\ dash' = [dash EXCEPT ![r].pc = "clock", ![r].cond_month = now.month]
    /\ DashFrame

\* last_month, second clock read: datetime.now().month - 1, or 12 without
\* a read; then Category.objects.all() is fetched for the category loop
DashClockValue(r) ==
    LET d == dash[r] IN
    /\ d.pc = "clock"
    /\ dash' = [dash EXCEPT
           ![r].pc = IF Categories = <<>> THEN "balance" ELSE "cat_expenses",
           ![r].value_month = IF d.cond_month > 1 THEN now.month ELSE 0,
           ![r].last_month  = IF d.cond_month > 1 THEN now.month - 1 ELSE 12,
           ![r].categories  = Categories]
    /\ DashFrame

\* Category loop, the Expense sum query of the current category
DashExpenses(r) ==
    LET d        == dash[r]
        category == d.categories[Len(d.category_summary) + 1]
    IN  /\ d.pc = "cat_expenses"
        /\ dash' = [dash EXCEPT
               ![r].pc = "cat_incomes",
               ![r].total_expenses_in_category =
                   OrZero(Aggregate(expenses,
                       ExpensesFor(category, d.user, d.last_month)))]
        /\ DashFrame

\* Category loop, the Income sum query of the current category, the entry
\* appended to category_summary and the running totals
DashIncomes(r) ==
    LET d        == dash[r]
        category == d.categories[Len(d.category_summary) + 1]
        total_incomes_in_category ==
            OrZero(Aggregate(incomes,
                IncomesFor(category, d.user, d.last_month)))
    IN  /\ d.pc = "cat_incomes"
        /\ dash' = [dash EXCEPT
               ![r].pc = IF Len(d.category_summary) + 1 < Len(d.categories)
                         THEN "cat_expenses" ELSE "balance",
               ![r].category_summary = Append(@,
                   [category |-> category,
                    total_expenses_in_category |-> d.total_expenses_in_category,
                    total_incomes_in_category |-> total_incomes_in_category]),
               ![r].total_expenses = @ + d.total_expenses_in_category,
               ![r].total_incomes  = @ + total_incomes_in_category,
               ![r].total_expenses_in_category = 0]
        /\ DashFrame

\* total_balance and the context handed to the template
DashBalance(r) ==
    LET d == dash[r] IN
    /\ d.pc = "balance"
    /\ dash' = [dash EXCEPT
           ![r].pc = "render",
           ![r].total_balance = Balance(d.total_incomes, d.total_expenses)]
    /\ DashFrame

\* The template evaluates the two lazy contribution querysets
DashRender(r) ==
    LET d == dash[r] IN
    /\ d.pc = "render"
    /\ dash' = [dash EXCEPT
           ![r].pc = "done",
           ![r].user_contribution  = ContributionsBy(d.user),
           ![r].other_contribution = ContributionsOfOthers(d.user)]
    /\ DashFrame

----------------------------------------------------------------------------
(* Specifications *)

LoggedOut == [s \in Sessions |-> Anonymous]
\* Both browser sessions logged in: s1 as u1, s2 as u2
LoggedIn  == [s \in Sessions |-> IF s = "s1" THEN "u1" ELSE "u2"]
NoRequest == [r \in Requests |-> DashIdle]

\* The rows of test_dashboard_view_context_data: one goal of u1 with a
\* target of 500 and one contribution of 100 to it
TestGoals         == << [owner |-> "u1", target_amount |-> 500] >>
TestContributions == << [goal |-> 1, contributor |-> "u1", amount |-> 100] >>

(* Spec: the session flow and the write handlers, from an empty store *)

\* Forms of one category and one date, the amount around the limit 0
AuthForms ==
    {f \in Forms : f.category = "c1" /\ f.date = StartDate /\ f.amount <= 1}

Init ==
    /\ session = LoggedOut
    /\ resp = [s \in Sessions |-> NoResponse]
    /\ incomes = <<>>
    /\ expenses = <<>>
    /\ goals = <<>>
    /\ contributions = <<>>
    /\ now = StartDate
    /\ dash = NoRequest

Login   == \E s \in Sessions, m \in Methods, u \in Usernames, p \in Passwords :
               user_login(s, m, u, p)
Logout  == \E s \in Sessions : user_logout(s)
Income  == \E s \in Sessions, m \in Methods, f \in AuthForms : add_income(s, m, f)
Expense == \E s \in Sessions, m \in Methods, f \in AuthForms : add_expense(s, m, f)

Next ==
    \/ Login
    \/ Logout
    \/ Income
    \/ Expense

Spec == Init /\ [][Next]_vars

(* SpecReport: the category summary of the dashboard while both users post *)
(* transactions; the clock stands in January, the reporting month is 12   *)

\* u1 posts into either category on any form date; u2 posts into c1 in
\* the month the report covers
ReportForms(s) ==
    {f \in Forms :
        /\ f.fieldsOk
        /\ f.amount > 0
        /\ s = "s2" => f.category = "c1" /\ f.date = StartDate /\ f.amount = 2}

InitReport ==
    /\ session = LoggedIn
    /\ resp = [s \in Sessions |-> NoResponse]
    /\ incomes = <<>>
    /\ expenses = <<>>
    /\ goals = TestGoals
    /\ contributions = TestContributions
    /\ now = NextMonth(StartDate)
    /\ dash = NoRequest

PostIncome ==
    \E s \in Sessions : \E f \in ReportForms(s) : add_income(s, "POST", f)
PostExpense ==
    \E s \in Sessions : \E f \in ReportForms(s) : add_expense(s, "POST", f)
ReportStart == \E s \in Sessions : DashStart("r1", s)
ReportGoal  == DashGoal("r1")
ReportClockCond  == DashClockCond("r1")
ReportClockValue == DashClockValue("r1")
ReportExpenses   == DashExpenses("r1")
ReportIncomes    == DashIncomes("r1")
ReportBalance    == DashBalance("r1")
ReportRender     == DashRender("r1")

NextReport ==
    \/ PostIncome
    \/ PostExpense
    \/ ReportStart
    \/ ReportGoal
    \/ ReportClockCond
    \/ ReportClockValue
    \/ ReportExpenses
    \/ ReportIncomes
    \/ ReportBalance
    \/ ReportRender

SpecReport == InitReport /\ [][NextReport]_vars

(* SpecGoals: goal progress and the contribution lists of the dashboard   *)
(* while goals and contributions are created                              *)

InitGoals ==
    /\ session = LoggedIn
    /\ resp = [s \in Sessions |-> NoResponse]
    /\ incomes = <<>>
    /\ expenses = <<>>
    /\ goals = <<>>
    /\ contributions = <<>>
    /\ now = StartDate
    /\ dash = NoRequest

NewGoal == \E u \in Users, t \in TargetAmounts : GoalCreate(u, t)
NewContribution ==
    \E g \in DOMAIN goals, u \in Users, a \in ContribAmounts :
        ContributionCreate(g, u, a)
GoalsStart == \E s \in Sessions : DashStart("r1", s)
GoalsGoal  == DashGoal("r1")
GoalsClockCond  == DashClockCond("r1")
GoalsClockValue == DashClockValue("r1")
GoalsExpenses   == DashExpenses("r1")
GoalsIncomes    == DashIncomes("r1")
GoalsBalance    == DashBalance("r1")
GoalsRender     == DashRender("r1")

NextGoals ==
    \/ NewGoal
    \/ NewContribution
    \/ GoalsStart
    \/ GoalsGoal
    \/ GoalsClockCond
    \/ GoalsClockValue
    \/ GoalsExpenses
    \/ GoalsIncomes
    \/ GoalsBalance
    \/ GoalsRender

SpecGoals == InitGoals /\ [][NextGoals]_vars

(* SpecClock: two dashboard requests of u1 over a store nobody writes,    *)
(* while the clock passes from December into the new year                 *)

Tables(rows, n) == UNION {[1..k -> rows] : k \in 0..n}

\* Transactions of u1 dated in the months from first to the month after
ClockRows(first) ==
    [user : {"u1"}, category : {"c1", "c2"}, amount : {1},
     date : {first, NextMonth(first)}]

\* The clock starts in the month start; the tables hold rows of the month
\* before and of that month
InitAt(start) ==
    /\ session = LoggedIn
    /\ resp = [s \in Sessions |-> NoResponse]
    /\ incomes \in Tables(ClockRows(PrevCalendarMonth(start)), MaxRows)
    /\ expenses \in Tables(ClockRows(PrevCalendarMonth(start)), MaxRows)
    /\ RowCount <= MaxRows
    /\ goals = TestGoals
    /\ contributions = TestContributions
    /\ now = start
    /\ dash = NoRequest

InitClock == InitAt(StartDate)

ClockStart == \E r \in Requests : DashStart(r, "s1")
ClockGoal  == \E r \in Requests : DashGoal(r)
ClockClockCond  == \E r \in Requests : DashClockCond(r)
ClockClockValue == \E r \in Requests : DashClockValue(r)
ClockExpenses   == \E r \in Requests : DashExpenses(r)
ClockIncomes    == \E r \in Requests : DashIncomes(r)
ClockBalance    == \E r \in Requests : DashBalance(r)
ClockRender     == \E r \in Requests : DashRender(r)

NextClock ==
    \/ Tick
    \/ ClockStart
    \/ ClockGoal
    \/ ClockClockCond
    \/ ClockClockValue
    \/ ClockExpenses
    \/ ClockIncomes
    \/ ClockBalance
    \/ ClockRender

SpecClock == InitClock /\ [][NextClock]_vars

(* SpecIdem: the same requests over a store nobody writes, the clock      *)
(* starting in January and passing into the following months              *)

InitIdem == InitAt(NextMonth(StartDate))

SpecIdem == InitIdem /\ [][NextClock]_vars

----------------------------------------------------------------------------
(* Reference definitions for the properties: sums over sets of rows *)

RECURSIVE SumOver(_, _)
SumOver(pks, table) ==
    IF pks = {} THEN 0
    ELSE LET i == CHOOSE i \in pks : TRUE
         IN  table[i].amount + SumOver(pks \ {i}, table)

Last(seq) == seq[Len(seq)]
Range(seq) == {seq[i] : i \in DOMAIN seq}
NoDuplicates(seq) == Cardinality(Range(seq)) = Len(seq)

RECURSIVE SumExpensesOf(_)
SumExpensesOf(summary) ==
    IF summary = <<>> THEN 0
    ELSE Head(summary).total_expenses_in_category + SumExpensesOf(Tail(summary))

RECURSIVE SumIncomesOf(_)
SumIncomesOf(summary) ==
    IF summary = <<>> THEN 0
    ELSE Head(summary).total_incomes_in_category + SumIncomesOf(Tail(summary))

\* The month number before month number m
PrevMonthNumber(m) == IF m = 1 THEN 12 ELSE m - 1

Built(r) == dash[r].pc = "done"

----------------------------------------------------------------------------
(* C2.  In every report the dashboard produces, total_balance is          *)
(* total_incomes - total_expenses, and total_expenses and total_incomes   *)
(* are the sums of the per-category totals of that same report, also when *)
(* income and expense writes interleave with the per-category queries.    *)

C2_TotalsConsistent ==
    \A r \in Requests :
        dash[r].pc \in {"render", "done"} =>
            /\ dash[r].total_balance =
                   dash[r].total_incomes - dash[r].total_expenses
            /\ dash[r].total_expenses = SumExpensesOf(dash[r].category_summary)
            /\ dash[r].total_incomes = SumIncomesOf(dash[r].category_summary)

\* A report with a negative balance, built while two expenses were posted
\* between the query of the first category (which missed the older row) and
\* the query of the second category (which counted the newer row)
C2_Witness ==
    /\ Built("r1")
    /\ Len(expenses) = 2
    /\ expenses[1].user = "u1" /\ expenses[1].category = "c1"
    /\ expenses[1].date.month = 12
    /\ expenses[2].user = "u1" /\ expenses[2].category = "c2"
    /\ expenses[2].date.month = 12
    /\ dash["r1"].category_summary[1].total_expenses_in_category = 0
    /\ dash["r1"].category_summary[2].total_expenses_in_category
           = expenses[2].amount
    /\ dash["r1"].total_balance < 0

----------------------------------------------------------------------------
(* C3.  category_summary holds exactly one entry for every category of    *)
(* the store, in store order, also for a category in which the requesting *)
(* user has no transaction.  The totals of an entry are the sums, at the  *)
(* time of the query, of the requesting user's own Expense and Income     *)
(* rows of that category whose month number is the reporting month; rows  *)
(* of other users are never counted, and the totals are the number 0 when *)
(* no row matches.                                                        *)

OwnExpensePks(user, category, month) ==
    {i \in DOMAIN expenses :
        /\ expenses[i].user = user
        /\ expenses[i].category = category
        /\ expenses[i].date.month = month}

OwnIncomePks(user, category, month) ==
    {i \in DOMAIN incomes :
        /\ incomes[i].user = user
        /\ incomes[i].category = category
        /\ incomes[i].date.month = month}

C3_CategorySummary ==
    [][\A r \in Requests :
        LET d == dash[r]
            category == Categories[Len(d.category_summary) + 1]
        IN  /\ DashExpenses(r) =>
                /\ dash'[r].total_expenses_in_category \in Nat
                /\ dash'[r].total_expenses_in_category =
                       SumOver(OwnExpensePks(d.user, category, d.last_month),
                               expenses)
            /\ DashIncomes(r) =>
                LET entry == Last(dash'[r].category_summary) IN
                /\ entry.category = category
                /\ entry.total_expenses_in_category
                       = d.total_expenses_in_category
                /\ entry.total_incomes_in_category \in Nat
                /\ entry.total_incomes_in_category =
                       SumOver(OwnIncomePks(d.user, category, d.last_month),
                               incomes)
            /\ DashBalance(r) =>
                [i \in DOMAIN d.category_summary |->
                    d.category_summary[i].category] = Categories
      ]_vars

\* A report of u1 while u1 and u2 each hold an expense in c1 in the
\* reporting month: c1 shows the amount of u1's row alone, and c2, where
\* u1 has nothing, is listed with zeros
C3_Witness ==
    /\ Built("r1")
    /\ dash["r1"].user = "u1"
    /\ Len(expenses) = 2
    /\ \E i, j \in DOMAIN expenses :
        /\ expenses[i].user = "u1" /\ expenses[j].user = "u2"
        /\ expenses[i].category = "c1" /\ expenses[j].category = "c1"
        /\ expenses[i].date.month = 12 /\ expenses[j].date.month = 12
        /\ dash["r1"].category_summary[1].total_expenses_in_category
               = expenses[i].amount
    /\ dash["r1"].category_summary[2] =
           [category |-> "c2", total_expenses_in_category |-> 0,
            total_incomes_in_category |-> 0]

----------------------------------------------------------------------------
(* C5.  The category totals of a report count only the transactions of    *)
(* the user dated in the calendar month immediately before the current    *)
(* month: a row of another month, or of the same month number in another  *)
(* year, is not counted.                                                  *)

C5_PreviousCalendarMonthOnly ==
    [][\A r \in Requests :
        LET d == dash[r]
            category == Categories[Len(d.category_summary) + 1]
        IN  /\ DashExpenses(r) =>
                dash'[r].total_expenses_in_category =
                    SumOver({i \in DOMAIN expenses :
                                /\ expenses[i].user = d.user
                                /\ expenses[i].category = category
                                /\ expenses[i].date = PrevCalendarMonth(now)},
                            expenses)
            /\ DashIncomes(r) =>
                Last(dash'[r].category_summary).total_incomes_in_category =
                    SumOver({i \in DOMAIN incomes :
                                /\ incomes[i].user = d.user
                                /\ incomes[i].category = category
                                /\ incomes[i].date = PrevCalendarMonth(now)},
                            incomes)
      ]_vars

----------------------------------------------------------------------------
(* C7.  Building the dashboard report never changes the store: every step *)
(* of a dashboard request leaves the Income, Expense, Goal and            *)
(* Contribution tables as they were.                                      *)

C7_ReportReadsOnly ==
    [][dash' # dash => UNCHANGED <<incomes, expenses, goals, contributions>>]_vars

\* A report was built over a store that holds rows
C7_Witness ==
    /\ Built("r1")
    /\ dash["r1"].total_expenses > 0
    /\ dash["r1"].total_incomes > 0
    /\ Len(expenses) = 1 /\ Len(incomes) = 1

----------------------------------------------------------------------------
(* C1.  The dashboard has one entry for every goal the requesting user    *)
(* owns.  An entry's total_contributions is the sum of the amounts of all *)
(* contributions to that goal, by any contributor, 0 when there are none. *)
(* Its progress is total_contributions / target_amount * 100 when the     *)
(* target is positive and exactly 0 when the target is 0; it is never     *)
(* clamped, so it exceeds 100 for an over-funded goal.                    *)

C1_GoalProgress ==
    [][\A r \in Requests :
        /\ (\E s \in Sessions : DashStart(r, s)) =>
            /\ Range(dash'[r].user_goals) =
                   {g \in DOMAIN goals : goals[g].owner = dash'[r].user}
            /\ NoDuplicates(dash'[r].user_goals)
        /\ DashGoal(r) =>
            LET entry  == Last(dash'[r].goals_with_progress)
                target == goals[entry.goal].target_amount
                total  == SumOver({i \in DOMAIN contributions :
                                      contributions[i].goal = entry.goal},
                                  contributions)
            IN  /\ entry.goal = dash[r].user_goals[Len(dash'[r].goals_with_progress)]
                /\ entry.total_contributions = total
                /\ entry.progress.den > 0
                /\ target > 0 =>
                       entry.progress.num * target
                           = total * 100 * entry.progress.den
                /\ target = 0 => entry.progress.num = 0
      ]_vars

\* A report of the owner of a goal with target 500 to which both users
\* contributed, 700 in all: the entry shows 700 and a progress of 140
C1_Witness ==
    /\ Built("r1")
    /\ Len(dash["r1"].goals_with_progress) = 1
    /\ LET entry == dash["r1"].goals_with_progress[1] IN
        /\ goals[entry.goal].target_amount = 500
        /\ entry.total_contributions = 700
        /\ entry.progress = [num |-> 140, den |-> 1]
        /\ \E i, j \in DOMAIN contributions :
            /\ contributions[i].contributor = "u1"
            /\ contributions[j].contributor = "u2"
            /\ contributions[i].goal = entry.goal
            /\ contributions[j].goal = entry.goal

----------------------------------------------------------------------------
(* C4.  own_contributions is exactly the set of contributions whose       *)
(* contributor is the user, whatever goal they target;                    *)
(* others_contributions_to_own_goals is exactly the set of contributions  *)
(* whose contributor is not the user and whose goal the user owns; the    *)
(* two are disjoint, a user's contribution to their own goal being in the *)
(* first and not in the second.                                           *)

C4_ContributionPartition ==
    [][\A r \in Requests :
        DashRender(r) =>
            LET user == dash[r].user
                own  == dash'[r].user_contribution
                oth  == dash'[r].other_contribution
            IN  /\ Range(own) = {i \in DOMAIN contributions :
                                    contributions[i].contributor = user}
                /\ Range(oth) = {i \in DOMAIN contributions :
                                    /\ contributions[i].contributor # user
                                    /\ goals[contributions[i].goal].owner = user}
                /\ NoDuplicates(own) /\ NoDuplicates(oth)
                /\ Range(own) \cap Range(oth) = {}
      ]_vars

\* The user contributed to their own goal and somebody else contributed
\* to it too: the first is listed as own only, the second as other's
C4_Witness ==
    /\ Built("r1")
    /\ LET user == dash["r1"].user
           own  == Range(dash["r1"].user_contribution)
           oth  == Range(dash["r1"].other_contribution)
       IN  /\ \E i \in own : goals[contributions[i].goal].owner = user
           /\ \E i \in own : i \notin oth
           /\ \E j \in oth : contributions[j].contributor # user

----------------------------------------------------------------------------
(* C8.  Every Income and Expense row created through add_income and       *)
(* add_expense has an amount above 0 and the authenticated requesting     *)
(* user as its owner.  A POST with an amount of 0 or less is rejected     *)
(* with a validation error: the form is rendered again (200), nothing     *)
(* redirects and the store is unchanged.  A valid POST creates exactly    *)
(* one row and redirects to 'transactions'.                               *)

RowsValid(table) ==
    \A i \in DOMAIN table : table[i].amount > 0 /\ table[i].user \in Users

C8_Post(s, form, table, template) ==
    /\ form.amount <= 0 =>
        /\ UNCHANGED <<incomes, expenses>>
        /\ resp'[s] # Redirect("transactions")
        /\ session[s] # Anonymous =>
               /\ resp'[s].status = 200
               /\ resp'[s].template = template
               /\ resp'[s].error # ""
    /\ (session[s] # Anonymous /\ form.fieldsOk /\ form.amount > 0) =>
        /\ table' = Append(table,
               [user |-> session[s], category |-> form.category,
                amount |-> form.amount, date |-> form.date])
        /\ resp'[s] = Redirect("transactions")
    /\ table' # table =>
        /\ Len(table') = Len(table) + 1
        /\ Last(table').user = session[s]
        /\ Last(table').amount > 0
        /\ resp'[s] = Redirect("transactions")

C8_WritesValidated ==
    [][/\ RowsValid(incomes') /\ RowsValid(expenses')
       /\ \A s \in Sessions, form \in AuthForms :
            /\ add_income(s, "POST", form) =>
                   C8_Post(s, form, incomes, "add_income.html")
                   /\ expenses' = expenses
            /\ add_expense(s, "POST", form) =>
                   C8_Post(s, form, expenses, "add_expense.html")
                   /\ incomes' = incomes
      ]_vars

\* u1 created an income; u2's expense POST with a non-positive amount was
\* answered with the form and its error, and there is no Expense row
C8_Witness ==
    /\ Len(incomes) = 1 /\ incomes[1].user = "u1"
    /\ resp["s1"] = Redirect("transactions")
    /\ session["s2"] = "u2"
    /\ resp["s2"] = Render("add_expense.html", AmountError)
    /\ expenses = <<>>

----------------------------------------------------------------------------
(* C9.  Session flow.  A login POST with the credentials of an existing   *)
(* user authenticates the session and redirects (302) to 'dashboard'.  A  *)
(* login POST with wrong credentials authenticates nothing: the session   *)
(* stays as it was, an unauthenticated one unauthenticated, and the login *)
(* page is rendered again (200) with 'Username or password is incorrect'. *)
(* A logout always ends with an unauthenticated session and a redirect    *)
(* (302) to 'login', whether or not a user was logged in.                 *)

C9_SessionFlow ==
    [][\A s \in Sessions :
        /\ \A u \in Usernames, p \in Passwords :
            user_login(s, "POST", u, p) =>
                IF u \in Users /\ Accounts[u] = p
                THEN /\ session'[s] = u
                     /\ resp'[s] = Redirect("dashboard")
                ELSE /\ session'[s] = session[s]
                     /\ session[s] = Anonymous => session'[s] = Anonymous
                     /\ resp'[s] = Render("login.html", LoginError)
        /\ user_logout(s) =>
            /\ session'[s] = Anonymous
            /\ resp'[s] = Redirect("login")
      ]_vars

\* s1 logged in and was sent to the dashboard; s2 posted wrong credentials
\* and is still anonymous, looking at the login page with the error
C9_Witness ==
    /\ session["s1"] = "u1"
    /\ resp["s1"] = Redirect("dashboard")
    /\ session["s2"] = Anonymous
    /\ resp["s2"] = Render("login.html", LoginError)

----------------------------------------------------------------------------
(* C6.  Building the dashboard report twice for the same user with no     *)
(* write to the store in between yields identical report values: the same *)
(* goal progress list in the same order, the same contribution lists, the *)
(* same category summaries, totals and balance.                           *)

\* The values of the context the view hands to the template
Report(r) ==
    [user_goals         |-> dash[r].goals_with_progress,
     user_contribution  |-> dash[r].user_contribution,
     other_contribution |-> dash[r].other_contribution,
     category_summary   |-> dash[r].category_summary,
     total_expenses     |-> dash[r].total_expenses,
     total_incomes      |-> dash[r].total_incomes,
     total_balance      |-> dash[r].total_balance]

\* As claimed (nothing writes the store under SpecIdem)
C6_Idempotent ==
    \A r1, r2 \in Requests :
        (Built(r1) /\ Built(r2) /\ dash[r1].user = dash[r2].user)
            => Report(r1) = Report(r2)

\* As amended: the two builds computed the same reporting month
C6_IdempotentSameMonth ==
    \A r1, r2 \in Requests :
        (/\ Built(r1) /\ Built(r2)
         /\ dash[r1].user = dash[r2].user
         /\ dash[r1].last_month = dash[r2].last_month)
            => Report(r1) = Report(r2)

\* Two reports of u1 for reporting month 12, built after the clock passed
\* into January, over a store in which u1 has December transactions
C6_Witness ==
    /\ Built("r1") /\ Built("r2")
    /\ dash["r1"].user = dash["r2"].user
    /\ dash["r1"].last_month = 12 /\ dash["r2"].last_month = 12
    /\ dash["r1"].total_expenses > 0
    /\ dash["r1"].total_balance # 0
    /\ Report("r1") = Report("r2")

----------------------------------------------------------------------------
(* C10.  The reporting month number is always in 1..12 and is the month   *)
(* before the month of one clock reading (12 when that month is 1), also  *)
(* when the clock passes into another month between the read of the       *)
(* condition and the read of the value.                                   *)

C10_ReportingMonth ==
    \A r \in Requests :
        dash[r].pc \notin {"idle", "goals", "clock"} =>
            /\ dash[r].last_month \in 1..12
            /\ \/ dash[r].last_month = PrevMonthNumber(dash[r].cond_month)
               \/ /\ dash[r].value_month # 0
                  /\ dash[r].last_month = PrevMonthNumber(dash[r].value_month)

====
